---- MODULE Spec2Model ----
(***************************************************************************)
(* Marketing performance dashboard (src/app.py).                           *)
(*                                                                         *)
(* The script is re-executed top to bottom on every user interaction.     *)
(* One execution is the action Rerun: engine, the three cached table       *)
(* loads, overall_metrics, campaign_alerts, the page selected in the       *)
(* sidebar and the footer.  The two pure functions are also exercised on   *)
(* their own over a larger family of campaign tables (SpecPure).           *)
(*                                                                         *)
(* Numbers: conversion_rate, roi_percent, cac and clicks are integers in   *)
(* some fixed unit.  A float computed from them is an exact fraction       *)
(* [kind |-> "num", num, den] with den > 0, or NaN.                        *)
(***************************************************************************)
EXTENDS Integers, Sequences, FiniteSets, TLC

VARIABLES
    db,             \* the warehouse: [campaign, channel, segment] -> table
    engine_cache,   \* st.cache_resource entry of get_engine
    data_cache,     \* st.cache_data entries of the three loaders
    campaign_df,    \* module globals of the last script run
    channel_df,
    segment_df,
    metrics,
    alerts_df,
    page,           \* sidebar radio
    selected_campaign,
    rendered,       \* elements the last script run put on the page
    outcome,        \* how the last script run ended
    error,          \* the exception the last script run ended with
    engine_creates, \* history: executions of get_engine's body
    first_load,     \* history: rows of each loader's first successful query
    requeries,      \* history: queries executed after a first success
    query_log,      \* history: the queries the last script run executed
    failed_before,  \* history: an earlier script run ended in a failed load
    served_stale,   \* history: a run read cached rows the warehouse had replaced
    pc              \* position of the pure-function harness

vars == <<db, engine_cache, data_cache, campaign_df, channel_df, segment_df,
          metrics, alerts_df, page, selected_campaign, rendered, outcome,
          error, engine_creates, first_load, requeries, query_log,
          failed_before, served_stale, pc>>

----------------------------------------------------------------------------
(* Bounds *)

MaxRows == 6

MaxCount == 2

----------------------------------------------------------------------------
(* Values *)

NaN == [kind |-> "nan"]

Num(n, d) == [kind |-> "num", num |-> n, den |-> d]

None == [kind |-> "none"]

RECURSIVE SumSeq(_)
SumSeq(s) == IF s = <<>> THEN 0 ELSE Head(s) + SumSeq(Tail(s))

Column(df, col) == [i \in 1..Len(df) |-> df[i][col]]

\* pandas Series.sum(): 0 on an empty series
SeriesSum(s) == SumSeq(s)

\* faulty variant of SeriesMean: an empty series averages to zero
SeriesMeanZero(s) == IF Len(s) = 0 THEN Num(0, 1) ELSE Num(SumSeq(s), Len(s))

\* pandas Series.mean(): NaN on an empty series
SeriesMean(s) == IF Len(s) = 0 THEN NaN ELSE Num(SumSeq(s), Len(s))

Q25 == [num |-> 1, den |-> 4]

\* faulty variant of SeriesQuantile: interpolation "lower", x[floor(h)]
SeriesQuantileLower(s, q) ==
    IF Len(s) = 0 THEN NaN
    ELSE LET x  == SortSeq(s, LAMBDA a, b : a < b)
             lo == (q.num * (Len(s) - 1)) \div q.den
         IN  Num(q.den * x[lo + 1], q.den)

\* pandas Series.quantile(q), interpolation "linear": over the sorted values
\* x[0..n-1], h = q*(n-1) and the result is
\* x[floor(h)] + (h - floor(h)) * (x[floor(h)+1] - x[floor(h)]).
SeriesQuantile(s, q) ==
    IF Len(s) = 0 THEN NaN
    ELSE LET x  == SortSeq(s, LAMBDA a, b : a < b)
             hn == q.num * (Len(s) - 1)
             lo == hn \div q.den
             r  == hn % q.den
             hi == IF r = 0 THEN lo ELSE lo + 1
         IN  Num(q.den * x[lo + 1] + r * (x[hi + 1] - x[lo + 1]), q.den)

\* v < f for an integer v and a float f; every comparison with NaN is False
LessThan(v, f) == f.kind = "num" /\ v * f.den < f.num

----------------------------------------------------------------------------
(* BUSINESS METRICS *)

overall_metrics(df) ==
    [avg_conversion |-> SeriesMean(Column(df, "conversion_rate")),
     avg_cac        |-> SeriesMean(Column(df, "cac")),
     avg_roi        |-> SeriesMean(Column(df, "roi_percent")),
     total_clicks   |-> SeriesSum(Column(df, "clicks"))]

----------------------------------------------------------------------------
(* RECOMMENDATION ENGINE *)

IsLowConv(row, q) == LessThan(row.conversion_rate, q)

\* faulty variant of IsLowRoi: a break-even campaign counts as negative
IsLowRoiNonPositive(row) == row.roi_percent <= 0

IsLowRoi(row) == row.roi_percent < 0

\* faulty variant of LowConvSeverity: a break-even campaign is rated High
LowConvSeverityNonPositive(row) ==
    IF row.roi_percent <= 0 THEN "High" ELSE "Medium"

\* faulty variant of LowConvSeverity: the two ratings are exchanged
LowConvSeverityExchanged(row) ==
    IF row.roi_percent < 0 THEN "Medium" ELSE "High"

LowConvSeverity(row) == IF row.roi_percent < 0 THEN "High" ELSE "Medium"

LowConvAlert(row) ==
    [campaign_id    |-> row.campaign_id,
     issue          |-> "Low Conversion Rate",
     severity       |-> LowConvSeverity(row),
     recommendation |-> "Reallocate budget or test new creative/channel mix"]

LowRoiAlert(row) ==
    [campaign_id    |-> row.campaign_id,
     issue          |-> "Negative ROI",
     severity       |-> "Critical",
     recommendation |-> "Pause campaign immediately and investigate CAC drivers"]

\* faulty variant of campaign_alerts: the two loops are exchanged
campaign_alertsRoiFirst(df) ==
    LET q        == SeriesQuantile(Column(df, "conversion_rate"), Q25)
        low_conv == SelectSeq(df, LAMBDA row : IsLowConv(row, q))
        low_roi  == SelectSeq(df, LAMBDA row : IsLowRoi(row))
    IN  [i \in 1..Len(low_roi) |-> LowRoiAlert(low_roi[i])]
        \o [i \in 1..Len(low_conv) |-> LowConvAlert(low_conv[i])]

campaign_alerts(df) ==
    LET q        == SeriesQuantile(Column(df, "conversion_rate"), Q25)
        low_conv == SelectSeq(df, LAMBDA row : IsLowConv(row, q))
        low_roi  == SelectSeq(df, LAMBDA row : IsLowRoi(row))
    IN  [i \in 1..Len(low_conv) |-> LowConvAlert(low_conv[i])]
        \o [i \in 1..Len(low_roi) |-> LowRoiAlert(low_roi[i])]

----------------------------------------------------------------------------
(* DATABASE CONNECTION and DATA LOADERS *)

Tables == <<"campaign", "channel", "segment">>

TableSet == {Tables[i] : i \in 1..Len(Tables)}

Miss == [hit |-> FALSE]

Hit(v) == [hit |-> TRUE, value |-> v]

NoFault == [kind |-> "none"]

Causes == {"OperationalError: connection refused",
           "ProgrammingError: relation does not exist"}

\* what the warehouse does to the queries of one script run: nothing, or it
\* fails the query of one table with a cause
Faults == {NoFault} \cup
          {[kind |-> "fault", table |-> t, cause |-> c] : t \in TableSet, c \in Causes}

\* @st.cache_resource get_engine(): the body runs on a miss only.
\* create_engine is lazy: it opens no connection.
get_engine(cache) == [engine |-> TRUE, created |-> ~cache]

\* pd.read_sql(query, engine): the table's rows, or the database error
read_sql(t, fault) ==
    IF fault.kind = "fault" /\ fault.table = t
    THEN [raised |-> TRUE, cause |-> fault.cause]
    ELSE [raised |-> FALSE, value |-> db[t]]

\* faulty variant of cached_load: the query runs on every call
cached_loadEveryCall(t, cache, fault) ==
    LET r == read_sql(t, fault)
    IN  IF r.raised
        THEN [raised |-> TRUE, cause |-> r.cause, cache |-> cache,
              queried |-> TRUE, result |-> r.cause]
        ELSE [raised |-> FALSE, value |-> r.value,
              cache |-> [cache EXCEPT ![t] = Hit(r.value)],
              queried |-> TRUE, result |-> "ok"]

\* faulty variant of cached_load: a failed query is caught and an empty
\* frame is returned in its place
cached_loadCatch(t, cache, fault) ==
    IF cache[t].hit
    THEN [raised |-> FALSE, value |-> cache[t].value, cache |-> cache,
          queried |-> FALSE, result |-> "cached"]
    ELSE LET r == read_sql(t, fault)
         IN  IF r.raised
             THEN [raised |-> FALSE, value |-> <<>>, cache |-> cache,
                   queried |-> TRUE, result |-> r.cause]
             ELSE [raised |-> FALSE, value |-> r.value,
                   cache |-> [cache EXCEPT ![t] = Hit(r.value)],
                   queried |-> TRUE, result |-> "ok"]

\* @st.cache_data load_campaigns / load_channels / load_segments: a hit
\* returns the stored rows, a miss runs the query and stores what it
\* returns; an exception is stored nowhere.  result is what the query
\* did: "cached" (not run), "ok", or the database error.
cached_load(t, cache, fault) ==
    IF cache[t].hit
    THEN [raised |-> FALSE, value |-> cache[t].value, cache |-> cache,
          queried |-> FALSE, result |-> "cached"]
    ELSE LET r == read_sql(t, fault)
         IN  IF r.raised
             THEN [raised |-> TRUE, cause |-> r.cause, cache |-> cache,
                   queried |-> TRUE, result |-> r.cause]
             ELSE [raised |-> FALSE, value |-> r.value,
                   cache |-> [cache EXCEPT ![t] = Hit(r.value)],
                   queried |-> TRUE, result |-> "ok"]

----------------------------------------------------------------------------
(* Page elements.  Labels are the script's, without their non-ASCII        *)
(* characters.                                                              *)

IntVal(v) == [kind |-> "int", val |-> v]

Title(text) == [kind |-> "title", label |-> text]

Subheader(text) == [kind |-> "subheader", label |-> text]

Markdown(text) == [kind |-> "markdown", label |-> text]

Metric(text, fmt, v) ==
    [kind |-> "metric", label |-> text, format |-> fmt, value |-> v]

Dataframe(name, df) == [kind |-> "dataframe", frame |-> name, data |-> df]

Chart(type, text, df) ==
    [kind |-> "plotly_chart", chart |-> type, label |-> text, data |-> df]

Selectbox(text, options, v) ==
    [kind |-> "selectbox", label |-> text, options |-> options, value |-> v]

Caption(text, v) == [kind |-> "caption", label |-> text, value |-> v]

\* Series.unique(): the distinct values in order of first appearance
RECURSIVE Unique(_)
Unique(s) ==
    IF s = <<>> THEN <<>>
    ELSE LET u == Unique(SubSeq(s, 1, Len(s) - 1))
             v == s[Len(s)]
         IN  IF \E i \in 1..Len(u) : u[i] = v THEN u ELSE Append(u, v)

\* DataFrame.sort_values(col), ascending; rows with equal keys keep their
\* order
RECURSIVE sort_values(_, _)
sort_values(df, col) ==
    IF df = <<>> THEN <<>>
    ELSE LET rest == sort_values(SubSeq(df, 1, Len(df) - 1), col)
             row  == df[Len(df)]
             k    == Cardinality({i \in 1..Len(rest) : rest[i][col] <= row[col]})
         IN  SubSeq(rest, 1, k) \o <<row>> \o SubSeq(rest, k + 1, Len(rest))

\* st.selectbox: the option the user chose, the first option when the
\* choice is not among the options, None when there is no option
selectbox(options, choice) ==
    IF \E i \in 1..Len(options) : IntVal(options[i]) = choice THEN choice
    ELSE IF options # <<>> THEN IntVal(options[1])
    ELSE None

Pages == <<"Executive Summary", "Campaign Deep Dive", "Segment Analysis",
           "Channel Performance", "Trends & Recommendations">>

PageSet == {Pages[i] : i \in 1..Len(Pages)}

Done(elements, sel) ==
    [raised |-> FALSE, elements |-> elements, selected |-> sel]

Raised(elements, sel, exc) ==
    [raised |-> TRUE, elements |-> elements, selected |-> sel, error |-> exc]

ExecutiveSummary(m, cdf, alerts) ==
    << Title("Executive Summary - Marketing Performance"),
       Metric("Avg Conversion Rate", ".2%", m.avg_conversion),
       Metric("Avg CAC", "$.2f", m.avg_cac),
       Metric("Avg ROI", ".1f%", m.avg_roi),
       Metric("Total Clicks", ",", IntVal(m.total_clicks)),
       Subheader("Which Campaigns Are Driving Results?"),
       Chart("bar", "Conversion Rate by Campaign Type",
             sort_values(cdf, "conversion_rate")),
       Subheader("Executive Alerts"),
       Dataframe("alerts_df", alerts) >>

\* df[col].iloc[0] raises IndexError on a frame without rows
CampaignDeepDive(cdf, choice) ==
    LET options == Unique(Column(cdf, "campaign_id"))
        sel     == selectbox(options, choice)
        df      == SelectSeq(cdf, LAMBDA row : IntVal(row.campaign_id) = sel)
        head    == << Title("Campaign Deep Dive"),
                      Selectbox("Select Campaign", options, sel) >>
    IN  IF Len(df) = 0
        THEN Raised(head, sel,
                    "IndexError: single positional indexer is out-of-bounds")
        ELSE Done(head \o
                  << Metric("Conversion Rate", ".2%", IntVal(df[1].conversion_rate)),
                     Metric("ROI", ".1f%", IntVal(df[1].roi_percent)),
                     Metric("CAC", "$.2f", IntVal(df[1].cac)),
                     Dataframe("df", df) >>, sel)

SegmentAnalysis(sdf) ==
    << Title("Customer Segment Performance"),
       Chart("scatter", "Segment Value Map (Efficiency vs Performance)", sdf),
       Dataframe("segment_df", sdf) >>

ChannelPerformance(chdf) ==
    << Title("Channel Efficiency & ROI"),
       Chart("bar", "Average ROI by Channel", chdf),
       Chart("bar", "Average CAC by Channel", chdf) >>

TrendsRecommendations(alerts) ==
    << Title("Strategic Insights & Recommendations"),
       Subheader("Key Recommendations"),
       Markdown("1. Pause underperforming campaigns with negative ROI immediately 2. Shift budget toward high-ROI, low-CAC channels 3. Double down on high-conversion customer segments 4. Run creative and targeting experiments on medium-severity campaigns"),
       Subheader("Campaign Risk Matrix"),
       Dataframe("alerts_df", alerts) >>

\* faulty variant of RenderPage: the chain tests the page of the previous run
RenderPagePrevious(p, choice, cdf, chdf, sdf, m, alerts) ==
    IF page = "Executive Summary"
    THEN Done(ExecutiveSummary(m, cdf, alerts), None)
    ELSE IF page = "Campaign Deep Dive"
    THEN CampaignDeepDive(cdf, choice)
    ELSE IF page = "Segment Analysis"
    THEN Done(SegmentAnalysis(sdf), None)
    ELSE IF page = "Channel Performance"
    THEN Done(ChannelPerformance(chdf), None)
    ELSE Done(TrendsRecommendations(alerts), None)

\* the if / elif chain over page; selected_campaign is assigned on the
\* Campaign Deep Dive page only
RenderPage(p, choice, cdf, chdf, sdf, m, alerts) ==
    IF p = "Executive Summary"
    THEN Done(ExecutiveSummary(m, cdf, alerts), None)
    ELSE IF p = "Campaign Deep Dive"
    THEN CampaignDeepDive(cdf, choice)
    ELSE IF p = "Segment Analysis"
    THEN Done(SegmentAnalysis(sdf), None)
    ELSE IF p = "Channel Performance"
    THEN Done(ChannelPerformance(chdf), None)
    ELSE IF p = "Trends & Recommendations"
    THEN Done(TrendsRecommendations(alerts), None)
    ELSE Done(<<>>, None)

Footer(now) == Caption("Last updated", IntVal(now))

----------------------------------------------------------------------------
(* One execution of the script *)

NoError == [kind |-> "none"]

Exception(where, msg) == [kind |-> "exception", at |-> where, message |-> msg]

Loaders == [campaign |-> "load_campaigns", channel |-> "load_channels",
            segment |-> "load_segments"]

\* A script run that ends in an uncaught exception: the elements emitted
\* before it stay, the exception is displayed, the globals not yet assigned
\* are shown as empty frames.
Failed(cache, loads, cdf, chdf, sdf, sel, elements, exc) ==
    [cache |-> cache, loads |-> loads, campaign_df |-> cdf, channel_df |-> chdf,
     segment_df |-> sdf, metrics |-> None, alerts_df |-> <<>>, selected |-> sel,
     rendered |-> elements, outcome |-> "exception", error |-> exc]

Script(p, choice, fault, now) ==
    LET l1 == cached_load("campaign", data_cache, fault)
        l2 == cached_load("channel", l1.cache, fault)
        l3 == cached_load("segment", l2.cache, fault)
    IN  IF l1.raised
        THEN Failed(l1.cache, <<l1>>, <<>>, <<>>, <<>>, None, <<>>,
                    Exception(Loaders.campaign, l1.cause))
        ELSE IF l2.raised
        THEN Failed(l2.cache, <<l1, l2>>, l1.value, <<>>, <<>>, None, <<>>,
                    Exception(Loaders.channel, l2.cause))
        ELSE IF l3.raised
        THEN Failed(l3.cache, <<l1, l2, l3>>, l1.value, l2.value, <<>>, None, <<>>,
                    Exception(Loaders.segment, l3.cause))
        ELSE LET m  == overall_metrics(l1.value)
                 a  == campaign_alerts(l1.value)
                 pg == RenderPage(p, choice, l1.value, l2.value, l3.value, m, a)
                 ok == [cache |-> l3.cache, loads |-> <<l1, l2, l3>>,
                        campaign_df |-> l1.value, channel_df |-> l2.value,
                        segment_df |-> l3.value, metrics |-> m, alerts_df |-> a,
                        selected |-> pg.selected]
             IN  IF pg.raised
                 THEN ok @@ [rendered |-> pg.elements, outcome |-> "exception",
                             error |-> Exception("page", pg.error)]
                 ELSE ok @@ [rendered |-> Append(pg.elements, Footer(now)),
                             outcome |-> "ok", error |-> NoError]

Executed(loads, t) ==
    \E i \in 1..Len(loads) : Tables[i] = t /\ loads[i].queried

Returned(loads, t) ==
    CHOOSE i \in 1..Len(loads) : Tables[i] = t

Times == {1, 2}

Rerun(p, choice, fault, now) ==
    \E eng \in {get_engine(engine_cache)}, run \in {Script(p, choice, fault, now)} :
        /\ engine_creates < MaxCount
        /\ \A t \in TableSet : requeries[t] < MaxCount
        /\ engine_cache' = eng.engine
        /\ engine_creates' = IF eng.created THEN engine_creates + 1
                             ELSE engine_creates
        /\ data_cache' = run.cache
        /\ campaign_df' = run.campaign_df
        /\ channel_df' = run.channel_df
        /\ segment_df' = run.segment_df
        /\ metrics' = run.metrics
        /\ alerts_df' = run.alerts_df
        /\ page' = p
        /\ selected_campaign' = run.selected
        /\ rendered' = run.rendered
        /\ outcome' = run.outcome
        /\ error' = run.error
        /\ first_load' =
             [t \in TableSet |->
                IF /\ ~first_load[t].hit
                   /\ Executed(run.loads, t)
                   /\ ~run.loads[Returned(run.loads, t)].raised
                THEN Hit(run.loads[Returned(run.loads, t)].value)
                ELSE first_load[t]]
        /\ requeries' =
             [t \in TableSet |->
                IF first_load[t].hit /\ Executed(run.loads, t)
                THEN requeries[t] + 1 ELSE requeries[t]]
        /\ query_log' =
             [i \in {j \in 1..Len(run.loads) : run.loads[j].queried} |->
                run.loads[i].result]
        /\ failed_before' =
             (failed_before \/ (outcome = "exception" /\ error.at # "page"))
        /\ served_stale' =
             (served_stale \/ \E i \in 1..Len(run.loads) :
                                /\ ~run.loads[i].queried
                                /\ run.loads[i].value # db[Tables[i]])
        /\ UNCHANGED <<db, pc>>

----------------------------------------------------------------------------
(* Events *)

\* the sidebar radio is set to another page
Navigate(p) ==
    /\ pc = "dashboard"
    /\ p # page
    /\ \E fault \in Faults, now \in Times :
          Rerun(p, selected_campaign, fault, now)

\* another option of the "Select Campaign" box is chosen
SelectCampaign(c) ==
    /\ pc = "dashboard"
    /\ \E i \in 1..Len(rendered) :
          /\ rendered[i].kind = "selectbox"
          /\ \E j \in 1..Len(rendered[i].options) : rendered[i].options[j] = c
    /\ IntVal(c) # selected_campaign
    /\ \E fault \in Faults, now \in Times :
          Rerun(page, IntVal(c), fault, now)

\* the page is opened or reloaded
Refresh ==
    /\ pc = "dashboard"
    /\ \E fault \in Faults, now \in Times :
          Rerun(page, selected_campaign, fault, now)

----------------------------------------------------------------------------
(* The warehouse *)

CampaignRow(id, type, conv, roi, cac, clicks) ==
    [campaign_id |-> id, campaign_type |-> type, conversion_rate |-> conv,
     roi_percent |-> roi, cac |-> cac, clicks |-> clicks]

ChannelRow(name, roi, cac) ==
    [channel_used_clean |-> name, avg_roi |-> roi, avg_cac |-> cac]

SegmentRow(name, n, cac, conv, roi) ==
    [customer_segment |-> name, campaigns |-> n, avg_cac |-> cac,
     avg_conversion_rate |-> conv, avg_roi |-> roi]

Campaign1 == CampaignRow(1, "Email", 10, -5, 20, 100)

Campaign2 == CampaignRow(2, "Social", 50, 20, 10, 200)

Campaign3 == CampaignRow(3, "Email", 30, 0, 15, 50)

DashCampaigns ==
    { <<>>, <<Campaign1, Campaign2>>, <<Campaign3, Campaign2, Campaign1>> }

DashChannels ==
    { <<>>, <<ChannelRow("Email", 12, 8), ChannelRow("Social", -3, 14)>> }

DashSegments ==
    { <<>>, <<SegmentRow("Students", 2, 9, 40, 7)>> }

DashTables ==
    [campaign |-> DashCampaigns, channel |-> DashChannels,
     segment |-> DashSegments]

CampaignIds == {1, 2, 3}

\* the upstream ETL replaces the content of one gold table
WarehouseUpdate(t, rows) ==
    /\ pc = "dashboard"
    /\ rows # db[t]
    /\ db' = [db EXCEPT ![t] = rows]
    /\ UNCHANGED <<engine_cache, data_cache, campaign_df, channel_df,
                   segment_df, metrics, alerts_df, page, selected_campaign,
                   rendered, outcome, error, engine_creates, first_load,
                   requeries, query_log, failed_before, served_stale, pc>>

\* the process has started and no script run has happened yet
Fresh ==
    /\ engine_cache = FALSE
    /\ data_cache = [t \in TableSet |-> Miss]
    /\ channel_df = <<>>
    /\ segment_df = <<>>
    /\ metrics = None
    /\ alerts_df = <<>>
    /\ page = Pages[1]
    /\ selected_campaign = None
    /\ rendered = <<>>
    /\ outcome = "none"
    /\ error = NoError
    /\ engine_creates = 0
    /\ first_load = [t \in TableSet |-> Miss]
    /\ requeries = [t \in TableSet |-> 0]
    /\ query_log = [i \in {} |-> "ok"]
    /\ failed_before = FALSE
    /\ served_stale = FALSE

Init ==
    /\ Fresh
    /\ db \in [campaign : DashCampaigns, channel : DashChannels,
               segment : DashSegments]
    /\ campaign_df = <<>>
    /\ pc = "dashboard"

Next ==
    \/ \E p \in PageSet : Navigate(p)
    \/ \E c \in CampaignIds : SelectCampaign(c)
    \/ Refresh
    \/ \E t \in TableSet : \E rows \in DashTables[t] : WarehouseUpdate(t, rows)

Spec == Init /\ [][Next]_vars

----------------------------------------------------------------------------
(* The two pure functions on their own, as the script applies them to      *)
(* campaign_df: metrics = overall_metrics(campaign_df), then               *)
(* alerts_df = campaign_alerts(campaign_df).                                *)

\* <<conversion_rate, roi_percent>> of a row: three conversion rates, the
\* two lower ones with a negative and a non-negative roi; zero and positive
\* roi both occur
RowVals == { <<0, -1>>, <<0, 0>>, <<1, -1>>, <<1, 1>>, <<2, 0>> }

IdSchemes == {"unique", "paired"}

\* campaign_id of row i of n: unique, or shared by neighbouring rows
IdOf(scheme, i, n) ==
    IF scheme = "unique" THEN n + 1 - i ELSE (i + 1) \div 2

\* a table for the alert rules: n rows with the values f and the ids of scheme
AlertTable(n, f, scheme) ==
    [i \in 1..n |->
        CampaignRow(IdOf(scheme, i, n), "Email", f[i][1], f[i][2], 1, 1)]

CacVals == {0, 3}

ClickVals == {0, 5}

\* a table for the metrics: n rows with the <<cac, clicks>> values f
MetricTable(n, f) ==
    [i \in 1..n |-> CampaignRow(i, "Email", 1, 0, f[i][1], f[i][2])]

InitPure ==
    /\ Fresh
    /\ db = [campaign |-> <<>>, channel |-> <<>>, segment |-> <<>>]
    /\ \E n \in 0..MaxRows :
          \/ \E f \in [1..n -> RowVals], scheme \in IdSchemes :
                campaign_df = AlertTable(n, f, scheme)
          \/ \E f \in [1..n -> CacVals \X ClickVals] :
                campaign_df = MetricTable(n, f)
    /\ pc = "loaded"

ComputeMetrics ==
    /\ pc = "loaded"
    /\ metrics' = overall_metrics(campaign_df)
    /\ pc' = "metrics"
    /\ UNCHANGED <<db, engine_cache, data_cache, campaign_df, channel_df,
                   segment_df, alerts_df, page, selected_campaign, rendered,
                   outcome, error, engine_creates, first_load, requeries,
                   query_log, failed_before, served_stale>>

ComputeAlerts ==
    /\ pc = "metrics"
    /\ alerts_df' = campaign_alerts(campaign_df)
    /\ pc' = "alerts"
    /\ UNCHANGED <<db, engine_cache, data_cache, campaign_df, channel_df,
                   segment_df, metrics, page, selected_campaign, rendered,
                   outcome, error, engine_creates, first_load, requeries,
                   query_log, failed_before, served_stale>>

NextPure == ComputeMetrics \/ ComputeAlerts

SpecPure == InitPure /\ [][NextPure]_vars

----------------------------------------------------------------------------
(* Properties of campaign_alerts and overall_metrics (SpecPure)            *)

RowIdx == 1..Len(campaign_df)

AlertIdx == 1..Len(alerts_df)

LowAlerts == {j \in AlertIdx : alerts_df[j].issue = "Low Conversion Rate"}

NegAlerts == {j \in AlertIdx : alerts_df[j].issue = "Negative ROI"}

NegRows == {i \in RowIdx : campaign_df[i].roi_percent < 0}

\* the k-th smallest conversion_rate of campaign_df, k in 1..n
ConvOrderStat(k) ==
    CHOOSE v \in {campaign_df[i].conversion_rate : i \in RowIdx} :
        /\ Cardinality({i \in RowIdx : campaign_df[i].conversion_rate < v}) < k
        /\ k <= Cardinality({i \in RowIdx : campaign_df[i].conversion_rate <= v})

\* four times the 25th percentile of conversion_rate under linear
\* interpolation: h = 0.25 * (n - 1), q = x[floor(h)] + frac(h) * (x[floor(h) + 1] - x[floor(h)])
FourQ ==
    LET n   == Len(campaign_df)
        lo  == (n - 1) \div 4
        r   == (n - 1) % 4
        xlo == ConvOrderStat(lo + 1)
        xhi == IF r = 0 THEN xlo ELSE ConvOrderStat(lo + 2)
    IN  4 * xlo + r * (xhi - xlo)

\* rows strictly below the 25th percentile
BelowQRows ==
    IF Len(campaign_df) = 0 THEN {}
    ELSE {i \in RowIdx : 4 * campaign_df[i].conversion_rate < FourQ}

\* the j-th element of a set of indices, in increasing order
Nth(S, j) == CHOOSE i \in S : Cardinality({x \in S : x < i}) = j - 1

AllIds ==
    {campaign_df[i].campaign_id : i \in RowIdx}
        \cup {alerts_df[j].campaign_id : j \in AlertIdx}

UniqueIds ==
    \A i, k \in RowIdx :
        campaign_df[i].campaign_id = campaign_df[k].campaign_id => i = k

LowConvText == "Reallocate budget or test new creative/channel mix"

NegRoiText == "Pause campaign immediately and investigate CAC drivers"

\* C1: the "Negative ROI" alerts and the rows with roi_percent < 0 are in
\* one-to-one correspondence preserving campaign_id: for every campaign_id
\* there are as many "Negative ROI" alerts as rows with roi_percent < 0, so
\* a row with roi_percent >= 0 (0 included) produces none; an empty table
\* produces none.
C1_NegativeRoiBijection ==
    pc = "alerts" =>
        /\ Cardinality(NegAlerts) = Cardinality(NegRows)
        /\ \A c \in AllIds :
              Cardinality({j \in NegAlerts : alerts_df[j].campaign_id = c})
                = Cardinality({i \in NegRows : campaign_df[i].campaign_id = c})

C1_Witness ==
    /\ pc = "alerts"
    /\ NegAlerts # {}
    /\ \E i \in RowIdx : campaign_df[i].roi_percent = 0
    /\ \E i \in RowIdx : campaign_df[i].roi_percent > 0

\* C2: the number of "Low Conversion Rate" alerts is the number of rows whose
\* conversion_rate is strictly below the 25th percentile under linear
\* interpolation; a row equal to the percentile is not counted.
C2_LowConversionCount ==
    pc = "alerts" => Cardinality(LowAlerts) = Cardinality(BelowQRows)

\* a table where one row is flagged by both rules and another row's
\* conversion_rate equals the percentile
C2_Witness ==
    /\ pc = "alerts"
    /\ \E i \in BelowQRows : i \in NegRows
    /\ \E i \in RowIdx : 4 * campaign_df[i].conversion_rate = FourQ
    /\ LowAlerts # {}

\* C3: the alerts are the "Low Conversion Rate" alerts in row order followed
\* by the "Negative ROI" alerts in row order.
C3_AlertOrder ==
    pc = "alerts" =>
        LET k == Cardinality(BelowQRows)
        IN  /\ Len(alerts_df) = k + Cardinality(NegRows)
            /\ \A j \in 1..k :
                  /\ alerts_df[j].issue = "Low Conversion Rate"
                  /\ alerts_df[j].campaign_id
                       = campaign_df[Nth(BelowQRows, j)].campaign_id
            /\ \A j \in 1..Cardinality(NegRows) :
                  /\ alerts_df[k + j].issue = "Negative ROI"
                  /\ alerts_df[k + j].campaign_id
                       = campaign_df[Nth(NegRows, j)].campaign_id

\* both kinds of alert occur, two of each, and a row flagged by the
\* "Negative ROI" rule stands before a row flagged by the other rule
C3_Witness ==
    /\ pc = "alerts"
    /\ UniqueIds
    /\ Cardinality(LowAlerts) >= 2
    /\ Cardinality(NegAlerts) >= 2
    /\ \E i \in NegRows : \E k \in BelowQRows : i < k /\ i \notin BelowQRows

\* C4: a "Low Conversion Rate" alert is "High" exactly when its row has
\* roi_percent < 0 and "Medium" otherwise, with the reallocation text; a
\* "Negative ROI" alert is "Critical" with the pause text; nothing else
\* appears.
C4_SeverityAndText ==
    pc = "alerts" =>
        \A j \in AlertIdx :
           \/ /\ alerts_df[j].issue = "Low Conversion Rate"
              /\ alerts_df[j].recommendation = LowConvText
              /\ j <= Cardinality(BelowQRows)
              /\ alerts_df[j].severity =
                   IF campaign_df[Nth(BelowQRows, j)].roi_percent < 0
                   THEN "High" ELSE "Medium"
           \/ /\ alerts_df[j].issue = "Negative ROI"
              /\ alerts_df[j].severity = "Critical"
              /\ alerts_df[j].recommendation = NegRoiText

C4_Witness ==
    /\ pc = "alerts"
    /\ \E j \in LowAlerts : alerts_df[j].severity = "High"
    /\ \E j \in LowAlerts :
          /\ alerts_df[j].severity = "Medium"
          /\ campaign_df[Nth(BelowQRows, j)].roi_percent = 0
    /\ NegAlerts # {}

AlertsOf(c) == {j \in AlertIdx : alerts_df[j].campaign_id = c}

\* C10: with unique campaign_id values a campaign has at most two alerts;
\* it has two exactly when it has one "Low Conversion Rate" alert rated
\* "High" and one "Negative ROI" alert rated "Critical"; every "High" alert
\* comes with a "Critical" alert of the same campaign and a campaign with a
\* "Medium" alert has no other alert.
C10_AtMostTwoAlerts ==
    (pc = "alerts" /\ UniqueIds) =>
        \A c \in AllIds :
           LET high == {j \in AlertsOf(c) : alerts_df[j].severity = "High"}
               crit == {j \in AlertsOf(c) : alerts_df[j].severity = "Critical"}
               med  == {j \in AlertsOf(c) : alerts_df[j].severity = "Medium"}
           IN  /\ Cardinality(AlertsOf(c)) <= 2
               /\ Cardinality(AlertsOf(c)) = 2 <=>
                    /\ Cardinality(high) = 1
                    /\ Cardinality(crit) = 1
                    /\ high \subseteq LowAlerts
                    /\ crit \subseteq NegAlerts
               /\ high # {} => crit # {}
               /\ med # {} => Cardinality(AlertsOf(c)) = 1

C10_Witness ==
    /\ pc = "alerts"
    /\ UniqueIds
    /\ Len(campaign_df) >= 3
    /\ \E c \in AllIds : Cardinality(AlertsOf(c)) = 2
    /\ \E c \in AllIds : \E j \in AlertsOf(c) : alerts_df[j].severity = "Medium"
    /\ \E c \in AllIds :
          /\ Cardinality(AlertsOf(c)) = 1
          /\ \E j \in AlertsOf(c) : alerts_df[j].severity = "Critical"

\* the clicks of the rows up to row i, added up row by row
RECURSIVE ClicksUpTo(_)
ClicksUpTo(i) == IF i = 0 THEN 0 ELSE ClicksUpTo(i - 1) + campaign_df[i].clicks

IsNumber(v) == v.kind = "num" \/ v.kind = "int"

\* C6: on an empty table the three means are the no-data value, which is no
\* number, total_clicks is 0 and nothing is raised; on any table
\* total_clicks is the sum of the clicks column.
C6_EmptyTableMetrics ==
    pc \in {"metrics", "alerts"} =>
        /\ Len(campaign_df) = 0 =>
              /\ ~IsNumber(metrics.avg_conversion)
              /\ ~IsNumber(metrics.avg_cac)
              /\ ~IsNumber(metrics.avg_roi)
              /\ metrics.avg_conversion = NaN
              /\ metrics.avg_cac = NaN
              /\ metrics.avg_roi = NaN
              /\ metrics.total_clicks = 0
        /\ metrics.total_clicks = ClicksUpTo(Len(campaign_df))

C6_Witness ==
    /\ pc = "metrics"
    /\ Len(campaign_df) = 0
    /\ metrics.avg_roi = NaN
    /\ metrics.total_clicks = 0

----------------------------------------------------------------------------
(* Properties of the script run (Spec)                                     *)

\* the last script run got as far as the page chain
ReachedPage ==
    \/ outcome = "ok"
    \/ outcome = "exception" /\ error.at = "page"

SelectionMiss ==
    \A i \in RowIdx : IntVal(campaign_df[i].campaign_id) # selected_campaign

\* C5: on Campaign Deep Dive, when the selected campaign matches no row of
\* the campaign table (an empty table included), the run ends without an
\* error and shows an empty table.
C5_SelectionMissShowsEmptyTable ==
    (page = "Campaign Deep Dive" /\ ReachedPage /\ SelectionMiss) =>
        /\ outcome = "ok"
        /\ \E i \in 1..Len(rendered) :
              rendered[i].kind = "dataframe" /\ rendered[i].data = <<>>

FailedQueries == {i \in DOMAIN query_log : query_log[i] # "ok"}

\* C7: a run in which a query fails ends in the displayed exception of the
\* loader, carrying the database error, with nothing rendered; the process
\* keeps serving runs, and a run in which no query fails does not end in a
\* loader's exception: after an earlier failure it renders the page.
C7_LoadFailureEndsRun ==
    /\ \A i \in FailedQueries :
          /\ outcome = "exception"
          /\ error = Exception(Loaders[Tables[i]], query_log[i])
          /\ rendered = <<>>
    /\ outcome = "exception" => ENABLED Refresh
    /\ (outcome # "none" /\ FailedQueries = {}) =>
          /\ ReachedPage
          /\ rendered # <<>>
          /\ outcome = "ok" \/ (page = "Campaign Deep Dive" /\ SelectionMiss)

\* a run that renders a page after an earlier run failed in a loader and
\* left the campaign table cached
C7_Witness ==
    /\ failed_before
    /\ outcome = "ok"
    /\ Len(rendered) > 1
    /\ DOMAIN query_log # {}
    /\ 1 \notin DOMAIN query_log

\* C8: the engine is created at most once, no table is queried again after
\* its first successful query, and every run that renders uses the rows of
\* that first query, whatever the warehouse holds by then.
C8_LoadedOnce ==
    /\ engine_creates <= 1
    /\ \A t \in TableSet :
          /\ requeries[t] = 0
          /\ first_load[t].hit => data_cache[t] = first_load[t]
    /\ outcome = "ok" =>
          /\ campaign_df = first_load.campaign.value
          /\ channel_df = first_load.channel.value
          /\ segment_df = first_load.segment.value
          /\ page = "Segment Analysis" =>
                rendered[3] = Dataframe("segment_df", first_load.segment.value)
          /\ page = "Channel Performance" =>
                rendered[2].data = first_load.channel.value

\* a run rendered the segment table from the cache after the warehouse had
\* replaced its rows
C8_Witness ==
    /\ served_stale
    /\ outcome = "ok"
    /\ page = "Segment Analysis"
    /\ db.segment # segment_df
    /\ db.campaign # campaign_df
    /\ engine_creates = 1

ViewTitle ==
    [p \in PageSet |->
        CASE p = "Executive Summary" -> "Executive Summary - Marketing Performance"
          [] p = "Campaign Deep Dive" -> "Campaign Deep Dive"
          [] p = "Segment Analysis" -> "Customer Segment Performance"
          [] p = "Channel Performance" -> "Channel Efficiency & ROI"
          [] p = "Trends & Recommendations" -> "Strategic Insights & Recommendations"]

\* the content of view p over the current selection and data
ViewContent(p) ==
    CASE p = "Executive Summary" ->
            ExecutiveSummary(metrics, campaign_df, alerts_df)
      [] p = "Campaign Deep Dive" ->
            CampaignDeepDive(campaign_df, selected_campaign).elements
      [] p = "Segment Analysis" -> SegmentAnalysis(segment_df)
      [] p = "Channel Performance" -> ChannelPerformance(channel_df)
      [] p = "Trends & Recommendations" -> TrendsRecommendations(alerts_df)

\* C9: a run that ends without an exception shows the content of the
\* selected view and of no other, computed from the current selection and
\* data; the alert table is shown on Executive Summary and on Trends &
\* Recommendations only; the footer comes last.
C9_ExactlyTheSelectedView ==
    outcome = "ok" =>
        LET n == Len(rendered)
        IN  /\ n >= 2
            /\ page \in PageSet
            /\ SubSeq(rendered, 1, n - 1) = ViewContent(page)
            /\ \A i \in 1..n :
                  rendered[i].kind = "title" =>
                      i = 1 /\ rendered[i].label = ViewTitle[page]
            /\ (\E i \in 1..n : rendered[i] = Dataframe("alerts_df", alerts_df))
                  <=> page \in {"Executive Summary", "Trends & Recommendations"}
            /\ \A i \in 1..n : rendered[i].kind = "caption" <=> i = n
            /\ metrics = overall_metrics(campaign_df)
            /\ alerts_df = campaign_alerts(campaign_df)

C9_Witness ==
    /\ outcome = "ok"
    /\ page = "Channel Performance"
    /\ alerts_df # <<>>
    /\ failed_before
    /\ served_stale

====
